---- MODULE Spec2Model ----
(***************************************************************************)
(* Model of AUSampler (src/AUSampler.js): the scale table built from a     *)
(* Scala file, the pitch resolution of a note number, and the note state   *)
(* kept by playNote / stopNote and the key and pointer handlers.            *)
(*                                                                         *)
(* Numbers.  A JavaScript number the program computes is kept exactly as   *)
(* the record [n, d, c] standing for (n / d) * 2^(c / 1200), with          *)
(* gcd(n, d) = 1, d > 0 and 0 <= c < 1200; 2^(c/1200) is irrational for    *)
(* 0 < c < 1200, so the form is canonical and record equality is numeric   *)
(* equality.  d = 0 stands for NaN.                                        *)
(***************************************************************************)
EXTENDS Integers, Sequences, FiniteSets, TLC

\* ------------------------------------------------------------ bounds
\* FileReaders that may be in flight at once
MaxReaders == 1
\* sound handles the session creates (loadSound completions)
MaxSounds == 1
\* FileReaders in flight at once while the scale files are the subject
MaxOverlap == 2
\* sound handles created while the replacement of the sample is the subject
MaxHandles == 2
\* largest |k| of the repeat periods the resolution laws are tried on
MaxK == 3
\* the note numbers the resolution laws are tried on lie within MaxSpan of baseNote
MaxSpan == 30

\* ------------------------------------------------------------ program constants
baseNote == 60
KEY_WIDTH == 40
KEY_HEIGHT == 150
\* the canvas row where the keys start (const y = 200)
KEY_TOP == 200
\* KEY_WIDTH * 0.7, the left edge of a black key inside its white key
BLACK_KEY_LEFT == 28
\* KEY_HEIGHT * BLACK_KEY_HEIGHT_RATIO
BLACK_KEY_HEIGHT == 90
\* the value of KEYBOARD_MAP[key] for a key the map does not hold; as a property
\* name of isPlaying it is the string "undefined". No handler of the model's
\* inputs produces a negative note number, so -1 is free to stand for it.
undefined == -1

\* ------------------------------------------------------------ numbers
NaN == [n |-> 0, d |-> 0, c |-> 0]
IsNaN(a) == a.d = 0

Abs(x) == IF x < 0 THEN -x ELSE x

RECURSIVE GCD(_, _)
GCD(a, b) == IF b = 0 THEN a ELSE GCD(b, a % b)

RECURSIVE IntPow2(_)
IntPow2(k) == IF k <= 0 THEN 1 ELSE 2 * IntPow2(k - 1)

\* the canonical record of (n / d) * 2^(c / 1200), d > 0
Norm(n, d, c) ==
    IF n = 0 THEN [n |-> 0, d |-> 1, c |-> 0]
    ELSE LET octs == c \div 1200
             n2 == IF octs >= 0 THEN n * IntPow2(octs) ELSE n
             d2 == IF octs >= 0 THEN d ELSE d * IntPow2(-octs)
             g == GCD(Abs(n2), d2)
         IN [n |-> n2 \div g, d |-> d2 \div g, c |-> c % 1200]

Num(v) == Norm(v, 1, 0)
One == Num(1)
Two == Num(2)

\* a * b
Mul(a, b) ==
    IF IsNaN(a) \/ IsNaN(b) THEN NaN
    ELSE Norm(a.n * b.n, a.d * b.d, a.c + b.c)

\* num / denom, denom # 0
Div(num, denom) ==
    IF denom < 0 THEN Norm(-num, -denom, 0) ELSE Norm(num, denom, 0)

\* 1 / a, a finite and not zero
Inv(a) == IF a.n < 0 THEN Norm(-a.d, -a.n, -a.c) ELSE Norm(a.d, a.n, -a.c)

\* a^k for an integer k, a finite and not zero
RECURSIVE PowV(_, _)
PowV(a, k) ==
    IF k = 0 THEN [n |-> 1, d |-> 1, c |-> 0]
    ELSE IF k < 0 THEN PowV(Inv(a), -k)
    ELSE Mul(a, PowV(a, k - 1))

\* Math.pow(2, i / 12) and Math.pow(2, cents / 1200)
PowCents(cents) == Norm(1, 1, cents)

\* Math.pow(2, octaves)
Pow2(octaves) == Norm(1, 1, 1200 * octaves)

\* a finite ratio above zero
IsPositive(a) == a.d > 0 /\ a.n > 0

\* JavaScript's n % m: the remainder has the sign of n; m > 0
JsRem(n, m) == IF n >= 0 THEN n % m ELSE -((-n) % m)

\* the mutant of mod: the plain remainder of n by m
modPlain(n, m) == JsRem(n, m)

\* mod(n, m), m > 0
mod(n, m) == JsRem(JsRem(n, m) + m, m)

\* ------------------------------------------------------------ pitch
\* const scaleIndex = mod(steps, scaleRatios.length), on a table that is not empty
scaleIndexOf(midiNote, ratios) == mod(midiNote - baseNote, Len(ratios))

\* calculatePitchRatio(midiNote) read against the table ratios. An undefined
\* note makes steps NaN, an empty table makes steps / 0 infinite or NaN and
\* mod(steps, 0) NaN: the product is NaN. An index outside the table reads
\* undefined, and undefined * x is NaN.
calculatePitchRatio(midiNote, ratios) ==
    IF midiNote = undefined \/ Len(ratios) = 0 THEN NaN
    ELSE LET steps == midiNote - baseNote
             octaves == steps \div Len(ratios)
             scaleIndex == scaleIndexOf(midiNote, ratios)
         IN IF scaleIndex < 0 \/ scaleIndex >= Len(ratios) THEN NaN
            ELSE Mul(ratios[scaleIndex + 1], Pow2(octaves))

\* initializeDefaultScale's table: 12-tone equal temperament, 13 entries
DefaultScale ==
    <<One>> \o [i \in 1..11 |-> PowCents(100 * i)] \o <<Two>>

\* ------------------------------------------------------------ Scala text
(***************************************************************************)
(* A file's text is the sequence of its lines as split('\n') and trim()    *)
(* leave them; a line is a sequence of tokens: a number, a word that is no *)
(* number, "/" or "!".  parseInt and parseFloat read the leading number of *)
(* a string and give NaN when it does not start with one.                  *)
(***************************************************************************)
N(v) == [t |-> "num", v |-> v]
W == [t |-> "txt", v |-> 0]
SL == [t |-> "/", v |-> 0]
EX == [t |-> "!", v |-> 0]

\* the tokens of a string before the first token of kind t (split(t)[0])
RECURSIVE Before(_, _)
Before(line, t) ==
    IF line = <<>> \/ line[1].t = t THEN <<>>
    ELSE <<line[1]>> \o Before(Tail(line), t)

\* the tokens after the first token of kind t (<<>> when there is none)
RECURSIVE After(_, _)
After(line, t) ==
    IF line = <<>> THEN <<>>
    ELSE IF line[1].t = t THEN Tail(line)
    ELSE After(Tail(line), t)

Includes(line, t) == \E i \in 1..Len(line) : line[i].t = t

\* parseFloat(x.trim()) and parseInt(x): ok is FALSE for NaN
parseFloat(str) ==
    IF str # <<>> /\ str[1].t = "num" THEN [ok |-> TRUE, v |-> str[1].v]
    ELSE [ok |-> FALSE, v |-> 0]

\* parseInt(lines[1]): the leading integer of the string, or NaN
parseInt(str) ==
    IF str # <<>> /\ str[1].t = "num" THEN [ok |-> TRUE, v |-> str[1].v]
    ELSE [ok |-> FALSE, v |-> 0]

\* .filter(line => line && !line.startsWith('!'))
KeepLine(line) == line # <<>> /\ line[1].t # "!"

\* parseScalaRatio(line): ok is FALSE for the null result
parseScalaRatio(line) ==
    LET str == Before(line, "!")
    IN IF str = <<>> THEN [ok |-> FALSE, r |-> NaN]
       ELSE IF Includes(str, "/")
       THEN LET num == parseFloat(Before(str, "/"))
                denom == parseFloat(Before(After(str, "/"), "/"))
            IN IF num.ok /\ denom.ok /\ denom.v # 0
               THEN [ok |-> TRUE, r |-> Div(num.v, denom.v)]
               ELSE [ok |-> FALSE, r |-> NaN]
       ELSE LET cents == parseFloat(str)
            IN IF cents.ok THEN [ok |-> TRUE, r |-> PowCents(cents.v)]
               ELSE [ok |-> FALSE, r |-> NaN]

\* the mutant of the loop: the first line that does not parse ends it
RECURSIVE PushRatiosAbort(_, _, _)
PushRatiosAbort(lines, i, ratios) ==
    IF i > Len(lines) THEN ratios
    ELSE LET ratio == parseScalaRatio(lines[i])
         IN IF ratio.ok THEN PushRatiosAbort(lines, i + 1, Append(ratios, ratio.r))
            ELSE ratios

\* the loop of reader.onload over lines[i .. ], pushing onto ratios
RECURSIVE PushRatios(_, _, _)
PushRatios(lines, i, ratios) ==
    IF i > Len(lines) THEN ratios
    ELSE LET ratio == parseScalaRatio(lines[i])
         IN PushRatios(lines, i + 1,
                       IF ratio.ok THEN Append(ratios, ratio.r) ELSE ratios)

\* the mutant of the terminal octave: 2 is pushed whatever the last entry is
EnsureOctaveAlways(ratios) == Append(ratios, Two)

\* if (scaleRatios[scaleRatios.length - 1] !== 2) scaleRatios.push(2)
EnsureOctave(ratios) ==
    IF ratios[Len(ratios)] # Two THEN Append(ratios, Two) ELSE ratios

\* the lines reader.onload keeps
FilteredLines(text) == SelectSeq(text, KeepLine)

\* reader.onload returns early: fewer than 2 lines, or a count that is NaN or <= 0
BuildFails(text) ==
    LET lines == FilteredLines(text)
    IN \/ Len(lines) < 2
       \/ LET numNotes == parseInt(lines[2])
          IN ~numNotes.ok \/ numNotes.v <= 0

\* the array reader.onload leaves in scaleRatios when it does not return early,
\* built in place on the array's contents at the time it runs
BuildTable(text, ratios) ==
    EnsureOctave(PushRatios(FilteredLines(text), 3, Append(ratios, One)))

\* ------------------------------------------------------------ inputs
DescLine == <<W, W>>
CommentLine == <<EX, W>>
BlankLine == <<>>

\* a file whose name does not end in .scl
FileNotScl ==
    [scl |-> FALSE, text |-> <<DescLine, <<N(1)>>, <<N(3), SL, N(2)>>>>]
\* comments, blanks and a description only: fewer than 2 lines remain
FileDescOnly ==
    [scl |-> TRUE, text |-> <<CommentLine, DescLine, BlankLine>>]
\* the count line is not a number
FileBadCount ==
    [scl |-> TRUE, text |-> <<DescLine, <<W>>, <<N(3), SL, N(2)>>>>]
\* the count line is 0
FileZeroCount ==
    [scl |-> TRUE, text |-> <<DescLine, <<N(0)>>, <<N(3), SL, N(2)>>>>]
\* description, count 2, and the lines "abc" and "3/0": no data line parses
FileNoneParse ==
    [scl |-> TRUE,
     text |-> <<CommentLine, DescLine, <<N(2)>>, <<W>>, <<N(3), SL, N(0)>>>>]
\* description, count 1, and the line "3/2"
FileFifth ==
    [scl |-> TRUE, text |-> <<DescLine, <<N(1)>>, <<N(3), SL, N(2)>>>>]
\* description, count 2, "abc" and "700.0 ! fifth"
FileSkip ==
    [scl |-> TRUE,
     text |-> <<DescLine, <<N(2)>>, <<W>>, <<N(700), EX, W>>>>]
\* description, count 2, "5/4" and "2/1": the definition ends in the octave
FileOctave ==
    [scl |-> TRUE,
     text |-> <<DescLine, <<N(2)>>, <<N(5), SL, N(4)>>, <<N(2), SL, N(1)>>>>]
\* description, count 1, "1200.0": the octave in cents
FileOctaveCents ==
    [scl |-> TRUE, text |-> <<DescLine, <<N(1)>>, <<N(1200)>>>>]
\* description, count 1, then "3/2" and "5/4": one line more than declared
FileExtra ==
    [scl |-> TRUE,
     text |-> <<DescLine, <<N(1)>>, <<N(3), SL, N(2)>>, <<N(5), SL, N(4)>>>>]
\* description, count 1, "3/1": a ratio above the octave
FileWide ==
    [scl |-> TRUE, text |-> <<DescLine, <<N(1)>>, <<N(3), SL, N(1)>>>>]
\* description, count 3, "0/1", "-3/2" and "-100.0"
FileNegative ==
    [scl |-> TRUE,
     text |-> <<DescLine, <<N(3)>>, <<N(0), SL, N(1)>>, <<N(-3), SL, N(2)>>,
                <<N(-100)>>>>]

File(id) ==
    CASE id = "notscl" -> FileNotScl
      [] id = "desconly" -> FileDescOnly
      [] id = "badcount" -> FileBadCount
      [] id = "zerocount" -> FileZeroCount
      [] id = "noneparse" -> FileNoneParse
      [] id = "fifth" -> FileFifth
      [] id = "skip" -> FileSkip
      [] id = "octave" -> FileOctave
      [] id = "octavecents" -> FileOctaveCents
      [] id = "extra" -> FileExtra
      [] id = "wide" -> FileWide
      [] id = "negative" -> FileNegative

FileIds ==
    {"notscl", "desconly", "badcount", "zerocount", "noneparse", "fifth", "skip",
     "octave", "octavecents", "extra", "wide", "negative"}

\* the files the session's scale input is given while the table swap is the
\* subject (a count of 0 takes the same early return as a count that is no number)
SclFiles == {"notscl", "desconly", "badcount", "noneparse", "fifth", "skip"}

\* the files given while the built table is the subject
BuildFiles ==
    {"desconly", "noneparse", "fifth", "skip", "octave", "octavecents", "extra",
     "wide", "negative"}

\* the keys pressed and released: two of KEYBOARD_MAP, one in upper case, and
\* one the map does not hold
Keys == {"a", "W", "z"}

\* pointer positions <<mouseX, mouseY>>: the first white key (note 60), the
\* first black key (note 61), and above the keys
Clicks == {<<10, 300>>, <<30, 210>>, <<10, 100>>}

\* pointer positions over the 800 x 600 canvas: the left and right edge of each
\* drawn octave and of the canvas, above, on the black keys, on the white keys
\* only, and below the keys
CanvasClicks ==
    {<<x, y>> : x \in {0, 30, 279, 280, 559, 560, 600, 800}, y \in {100, 210, 300, 400}}

\* ------------------------------------------------------------ key tables
WHITE_KEY_OFFSETS == <<0, 2, 4, 5, 7, 9, 11>>
\* null is the empty set
BLACK_KEY_OFFSETS == <<{1}, {3}, {}, {6}, {8}, {10}, {}>>

KEYBOARD_MAP ==
    [k \in {"a", "w", "s", "e", "d", "f", "t", "g", "y", "h", "u", "j", "k"} |->
        CASE k = "a" -> 60 [] k = "w" -> 61 [] k = "s" -> 62 [] k = "e" -> 63
          [] k = "d" -> 64 [] k = "f" -> 65 [] k = "t" -> 66 [] k = "g" -> 67
          [] k = "y" -> 68 [] k = "h" -> 69 [] k = "u" -> 70 [] k = "j" -> 71
          [] k = "k" -> 72]

\* key.toLowerCase() on the keys of the model
toLowerCase(key) ==
    CASE key = "A" -> "a" [] key = "W" -> "w" [] OTHER -> key

\* KEYBOARD_MAP[key.toLowerCase()]
KeyNote(key) ==
    IF toLowerCase(key) \in DOMAIN KEYBOARD_MAP
    THEN KEYBOARD_MAP[toLowerCase(key)]
    ELSE undefined

\* the notes handlePianoClick(mouseX, mouseY) presses: none or one
ClickNotes(mouseX, mouseY) ==
    IF mouseY < KEY_TOP \/ mouseY > KEY_TOP + KEY_HEIGHT THEN {}
    ELSE LET octave == mouseX \div (7 * KEY_WIDTH)
             remainder == JsRem(mouseX, 7 * KEY_WIDTH)
             blackKeyIndex == (remainder - BLACK_KEY_LEFT) \div KEY_WIDTH
             whiteKeyIndex == remainder \div KEY_WIDTH
         IN IF /\ mouseY <= KEY_TOP + BLACK_KEY_HEIGHT
               /\ remainder >= BLACK_KEY_LEFT
               /\ blackKeyIndex >= 0
               /\ blackKeyIndex < 7
               /\ BLACK_KEY_OFFSETS[blackKeyIndex + 1] # {}
            THEN {baseNote + (octave * 12) + o : o \in BLACK_KEY_OFFSETS[blackKeyIndex + 1]}
            ELSE IF whiteKeyIndex >= 0 /\ whiteKeyIndex < 7
            THEN {baseNote + (octave * 12) + WHITE_KEY_OFFSETS[whiteKeyIndex + 1]}
            ELSE {}

\* ------------------------------------------------------------ state
VARIABLES
    scaleRatios,    \* the active table
    scaleLoaded,
    sampleLoaded,
    sound,          \* the handle of the loaded sample, 0 while undefined
    soundPlayers,   \* the note numbers createPitchedSamples made an entry for
    isPlaying,      \* note -> BOOLEAN, on the property names set so far
    pressedKeys,
    readers,        \* file -> FileReaders reading it whose onload has not run
    loading,        \* loadSound calls whose callback has not run
    nSounds,        \* sound handles created so far
    voices,         \* the audio engine: the voices sounding, [h, note, rate]
    committed,      \* history: the last table a build completed
    resolved,       \* the last calculatePitchRatio call made on its own
    calls           \* history: the play and stop calls the last handler made

vars ==
    <<scaleRatios, scaleLoaded, sampleLoaded, sound, soundPlayers, isPlaying,
      pressedKeys, readers, loading, nSounds, voices, committed, resolved, calls>>

\* isPlaying[midiNote] read as a condition: a missing property is undefined
Engaged(playing, midiNote) == midiNote \in DOMAIN playing /\ playing[midiNote]

\* the indices marked engaged
EngagedSet(playing) == {i \in DOMAIN playing : playing[i]}

\* isPlaying[midiNote] = v
SetPlaying(playing, midiNote, v) == (midiNote :> v) @@ playing

\* sound.stop(): the call names no note; every voice of the handle stops
SoundStop(vs) == {v \in vs : v.h # sound}

\* sound.rate(ratio): the rate of the handle, so of every voice sounding on it
SoundRate(vs, ratio) ==
    {IF v.h = sound THEN [v EXCEPT !.rate = ratio] ELSE v : v \in vs}

\* sound.play(): one more voice of the handle, at the handle's rate; midiNote
\* is the index whose playNote made the call
SoundPlay(vs, midiNote, ratio) ==
    vs \cup {[h |-> sound, note |-> midiNote, rate |-> ratio]}

\* the mutant of stopNote: the stop call is made whatever isPlaying holds
stopNoteAlways(ns, midiNote) ==
    [ns EXCEPT !.voices = SoundStop(@),
               !.calls = Append(@, [op |-> "stop", note |-> midiNote]),
               !.isPlaying = SetPlaying(@, midiNote, FALSE)]

\* stopNote(midiNote) on the note state ns = [isPlaying, voices, calls]
stopNote(ns, midiNote) ==
    IF Engaged(ns.isPlaying, midiNote)
    THEN [ns EXCEPT !.voices = SoundStop(@),
                    !.calls = Append(@, [op |-> "stop", note |-> midiNote]),
                    !.isPlaying = SetPlaying(@, midiNote, FALSE)]
    ELSE ns

\* the mutant of playNote: no stop before the restart
playNoteNoStop(ns, midiNote) ==
    IF ~sampleLoaded THEN ns
    ELSE LET ratio == calculatePitchRatio(midiNote, scaleRatios)
         IN [ns EXCEPT !.voices = SoundPlay(SoundRate(@, ratio), midiNote, ratio),
                       !.calls = Append(@, [op |-> "play", note |-> midiNote]),
                       !.isPlaying = SetPlaying(@, midiNote, TRUE)]

\* the mutant of playNote: no check of sampleLoaded
playNoteUnguarded(ns, midiNote) ==
    LET s1 == IF Engaged(ns.isPlaying, midiNote) THEN stopNote(ns, midiNote) ELSE ns
        ratio == calculatePitchRatio(midiNote, scaleRatios)
    IN [s1 EXCEPT !.voices = SoundPlay(SoundRate(@, ratio), midiNote, ratio),
                  !.calls = Append(@, [op |-> "play", note |-> midiNote]),
                  !.isPlaying = SetPlaying(@, midiNote, TRUE)]

\* playNote(midiNote)
playNote(ns, midiNote) ==
    IF ~sampleLoaded THEN ns
    ELSE LET s1 == IF Engaged(ns.isPlaying, midiNote)
                   THEN stopNote(ns, midiNote) ELSE ns
             ratio == calculatePitchRatio(midiNote, scaleRatios)
         IN [s1 EXCEPT !.voices = SoundPlay(SoundRate(@, ratio), midiNote, ratio),
                       !.calls = Append(@, [op |-> "play", note |-> midiNote]),
                       !.isPlaying = SetPlaying(@, midiNote, TRUE)]

\* Object.keys(isPlaying): the integer names in ascending order, then "undefined"
RECURSIVE Ascending(_)
Ascending(S) ==
    IF S = {} THEN <<>>
    ELSE LET m == CHOOSE x \in S : \A y \in S : x <= y
         IN <<m>> \o Ascending(S \ {m})

ObjectKeys(playing) ==
    Ascending(DOMAIN playing \ {undefined})
        \o (IF undefined \in DOMAIN playing THEN <<undefined>> ELSE <<>>)

\* the mutant of forEach: only the first key is visited
ForEachStopNoteFirst(ns, keys) ==
    IF keys = <<>> THEN ns ELSE stopNote(ns, Head(keys))

\* keys.forEach(stopNote)
RECURSIVE ForEachStopNote(_, _)
ForEachStopNote(ns, keys) ==
    IF keys = <<>> THEN ns
    ELSE ForEachStopNote(stopNote(ns, Head(keys)), Tail(keys))

\* the note state a handler starts from: it has made no call yet
NoteState == [isPlaying |-> isPlaying, voices |-> voices, calls |-> <<>>]

\* the handler leaves the note state ns
SetNoteState(ns) ==
    /\ isPlaying' = ns.isPlaying
    /\ voices' = ns.voices
    /\ calls' = ns.calls

\* createPitchedSamples() run with the handle snd and the table ratios:
\* the entries made and the voices after the last sound.rate
createPitchedSamples(snd, loaded, ratios, vs) ==
    IF snd = 0 \/ ~loaded
    THEN [soundPlayers |-> soundPlayers, voices |-> vs]
    ELSE LET last == baseNote + 2 * Len(ratios) - 1
         IN [soundPlayers |-> baseNote .. last,
             voices |-> IF Len(ratios) = 0 THEN vs
                        ELSE {IF v.h = snd
                              THEN [v EXCEPT !.rate = calculatePitchRatio(last, ratios)]
                              ELSE v : v \in vs}]

\* ------------------------------------------------------------ the program
\* after setup(): createUI and initializeDefaultScale
Init ==
    /\ scaleRatios = DefaultScale
    /\ scaleLoaded = TRUE
    /\ sampleLoaded = FALSE
    /\ sound = 0
    /\ soundPlayers = {}
    /\ isPlaying = << >>
    /\ pressedKeys = {}
    /\ readers = [f \in FileIds |-> 0]
    /\ loading = 0
    /\ nSounds = 0
    /\ voices = {}
    /\ committed = DefaultScale
    /\ resolved = [midiNote |-> baseNote, scaleIndex |-> 0, ratio |-> One]
    /\ calls = <<>>

RECURSIVE SumOver(_, _)
SumOver(f, S) ==
    IF S = {} THEN 0
    ELSE LET x == CHOOSE y \in S : TRUE IN f[x] + SumOver(f, S \ {x})

\* the FileReaders in flight
InFlight == SumOver(readers, FileIds)

\* handleSclFile(file), up to reader.readAsText
HandleSclFile(f) ==
    /\ calls' = <<>>
    /\ IF ~File(f).scl
       THEN UNCHANGED <<scaleRatios, readers>>
       ELSE /\ scaleRatios' = <<>>
            /\ readers' = [readers EXCEPT ![f] = @ + 1]
    /\ UNCHANGED <<scaleLoaded, sampleLoaded, sound, soundPlayers, isPlaying,
                   pressedKeys, loading, nSounds, voices, committed, resolved>>

\* reader.onload of a FileReader reading f
ReaderOnload(f) ==
    /\ readers[f] > 0
    /\ readers' = [readers EXCEPT ![f] = @ - 1]
    /\ calls' = <<>>
    /\ IF BuildFails(File(f).text)
       THEN UNCHANGED <<scaleRatios, scaleLoaded, soundPlayers, voices, committed>>
       ELSE LET built == BuildTable(File(f).text, scaleRatios)
            IN IF Len(built) > 1
               THEN LET made == IF sampleLoaded
                                THEN createPitchedSamples(sound, TRUE, built, voices)
                                ELSE [soundPlayers |-> soundPlayers, voices |-> voices]
                    IN /\ scaleRatios' = built
                       /\ scaleLoaded' = TRUE
                       /\ committed' = built
                       /\ soundPlayers' = made.soundPlayers
                       /\ voices' = made.voices
               ELSE /\ scaleRatios' = DefaultScale
                    /\ scaleLoaded' = TRUE
                    /\ committed' = DefaultScale
                                    /\ UNCHANGED <<soundPlayers, voices>>
    /\ UNCHANGED <<sampleLoaded, sound, isPlaying, pressedKeys, loading, nSounds, resolved>>

\* handleAudioFile(file), up to the call of loadSound
HandleAudioFile(isAudio) ==
    /\ calls' = <<>>
    /\ IF isAudio
       THEN loading' = loading + 1
       ELSE UNCHANGED loading
    /\ UNCHANGED <<scaleRatios, scaleLoaded, sampleLoaded, sound, soundPlayers,
                   isPlaying, pressedKeys, readers, nSounds, voices, committed, resolved>>

\* the callback handleAudioFile gives loadSound
SoundLoaded ==
    /\ loading > 0
    /\ loading' = loading - 1
    /\ nSounds' = nSounds + 1
    /\ sound' = nSounds + 1
    /\ sampleLoaded' = TRUE
    /\ calls' = <<>>
    /\ LET made == createPitchedSamples(nSounds + 1, scaleLoaded, scaleRatios, voices)
       IN /\ soundPlayers' = made.soundPlayers
          /\ voices' = made.voices
    /\ UNCHANGED <<scaleRatios, scaleLoaded, isPlaying, pressedKeys, readers, committed,
                   resolved>>

\* keyPressed(): note !== null holds for every key, mapped or not
KeyPressed(key) ==
    LET note == KeyNote(key)
    IN /\ pressedKeys' = pressedKeys \cup {note}
       /\ SetNoteState(playNote(NoteState, note))
       /\ UNCHANGED <<scaleRatios, scaleLoaded, sampleLoaded, sound, soundPlayers,
                      readers, loading, nSounds, committed, resolved>>

\* keyReleased()
KeyReleased(key) ==
    LET note == KeyNote(key)
    IN /\ pressedKeys' = pressedKeys \ {note}
       /\ SetNoteState(stopNote(NoteState, note))
       /\ UNCHANGED <<scaleRatios, scaleLoaded, sampleLoaded, sound, soundPlayers,
                      readers, loading, nSounds, committed, resolved>>

\* mousePressed(): handlePianoClick()
MousePressed(mouseX, mouseY) ==
    LET notes == ClickNotes(mouseX, mouseY)
    IN /\ pressedKeys' = pressedKeys \cup notes
       /\ IF notes = {} THEN SetNoteState(NoteState)
          ELSE \E note \in notes : SetNoteState(playNote(NoteState, note))
       /\ UNCHANGED <<scaleRatios, scaleLoaded, sampleLoaded, sound, soundPlayers,
                      readers, loading, nSounds, committed, resolved>>

\* mouseReleased()
MouseReleased ==
    /\ pressedKeys' = {}
    /\ SetNoteState(ForEachStopNote(NoteState, ObjectKeys(isPlaying)))
    /\ UNCHANGED <<scaleRatios, scaleLoaded, sampleLoaded, sound, soundPlayers,
                   readers, loading, nSounds, committed, resolved>>

\* draw(): drawPiano calls drawNoteInfo, so calculatePitchRatio, for each white
\* key when scaleLoaded; it writes no state, and NaN.toFixed raises nothing
Draw ==
    /\ calls' = <<>>
    /\ UNCHANGED <<scaleRatios, scaleLoaded, sampleLoaded, sound, soundPlayers,
                   isPlaying, pressedKeys, readers, loading, nSounds, voices,
                   committed, resolved>>

\* the session's events, with the scale files in files, at most maxReaders
\* FileReaders and maxSounds sound handles, the keys in keys, the pointer at clicks
Events(files, maxReaders, maxSounds, keys, clicks) ==
    \/ \E f \in files :
          /\ File(f).scl => InFlight < maxReaders
          /\ HandleSclFile(f)
    \/ \E f \in files : ReaderOnload(f)
    \/ \E isAudio \in BOOLEAN :
          /\ isAudio => nSounds + loading < maxSounds
          /\ HandleAudioFile(isAudio)
    \/ SoundLoaded
    \/ \E key \in keys : KeyPressed(key)
    \/ \E key \in keys : KeyReleased(key)
    \/ \E c \in clicks : MousePressed(c[1], c[2])
    \/ MouseReleased
    \/ Draw

\* the note side: three keys and the pointer, one scale file
Next == Events({"fifth"}, MaxReaders, MaxSounds, Keys, Clicks)

Spec == Init /\ [][Next]_vars

\* the table side: every scale file, overlapping reads, one key
NextTable == Events(SclFiles, MaxOverlap, MaxSounds, {"a"}, {<<10, 300>>})

SpecTable == Init /\ [][NextTable]_vars

\* the build side: the scale files and the sample, no notes
NextBuild ==
    \/ \E f \in BuildFiles :
          /\ InFlight < MaxReaders
          /\ HandleSclFile(f)
    \/ \E f \in BuildFiles : ReaderOnload(f)
    \/ /\ nSounds + loading < MaxSounds
       /\ HandleAudioFile(TRUE)
    \/ SoundLoaded

SpecBuild == Init /\ [][NextBuild]_vars

\* the sample side: one key, the sample loaded again while notes sound
NextSample == Events({"fifth"}, MaxReaders, MaxHandles, {"a"}, {<<30, 210>>})

SpecSample == Init /\ [][NextSample]_vars

\* the pointer alone, anywhere on the canvas
NextPointer ==
    \/ \E c \in CanvasClicks : MousePressed(c[1], c[2])
    \/ MouseReleased

SpecPointer == Init /\ [][NextPointer]_vars

\* ------------------------------------------------------------ resolution alone
\* the files whose build does not return early
Buildable == {f \in FileIds : ~BuildFails(File(f).text)}

\* the tables the program builds: the default, each file's on an empty array,
\* and each file's on the array another read has filled (two loads overlapping)
ResolveTables ==
    {DefaultScale}
        \cup {BuildTable(File(f).text, <<>>) : f \in Buildable}
        \cup {BuildTable(File(f).text, BuildTable(File(g).text, <<>>)) :
                f \in Buildable, g \in Buildable}

\* the state after setup and one scale load, a sample loaded
InitResolve ==
    /\ scaleRatios \in ResolveTables
    /\ committed = scaleRatios
    /\ scaleLoaded = TRUE
    /\ sampleLoaded = TRUE
    /\ sound = 1
    /\ nSounds = 1
    /\ soundPlayers = baseNote .. (baseNote + 2 * Len(scaleRatios) - 1)
    /\ isPlaying = << >>
    /\ pressedKeys = {}
    /\ readers = [f \in FileIds |-> 0]
    /\ loading = 0
    /\ voices = {}
    /\ resolved = [midiNote |-> baseNote, scaleIndex |-> 0, ratio |-> One]
    /\ calls = <<>>

\* calculatePitchRatio(midiNote) called on the active table
Resolve(midiNote) ==
    /\ resolved' = [midiNote |-> midiNote,
                    scaleIndex |-> scaleIndexOf(midiNote, scaleRatios),
                    ratio |-> calculatePitchRatio(midiNote, scaleRatios)]
    /\ UNCHANGED <<scaleRatios, scaleLoaded, sampleLoaded, sound, soundPlayers,
                   isPlaying, pressedKeys, readers, loading, nSounds, voices,
                   committed, calls>>

NextResolve ==
    \E midiNote \in (baseNote - MaxSpan) .. (baseNote + MaxSpan) : Resolve(midiNote)

SpecResolve == InitResolve /\ [][NextResolve]_vars

\* ------------------------------------------------------------ claims
\* the note numbers the session's keys and pointer positions give
NoteIds == {KeyNote(key) : key \in Keys} \cup UNION {ClickNotes(c[1], c[2]) : c \in Clicks}

\* the keys of KEYBOARD_MAP resolve these
MapNotes == {KEYBOARD_MAP[k] : k \in DOMAIN KEYBOARD_MAP}

\* at least 2 entries, all of them finite and above zero
TableInvariant(ratios) ==
    Len(ratios) >= 2 /\ \A i \in 1..Len(ratios) : IsPositive(ratios[i])

\* C1: once every scale load that was started has run its reader.onload, the
\* active table is the last table a build completed (the default one at first)
\* and holds at least one ratio: a failed build leaves it in place.
C1_FailedBuildKeepsTable ==
    InFlight = 0 => (Len(scaleRatios) > 0 /\ scaleRatios = committed)

\* C2: while a scale load is between handleSclFile and its reader.onload, a
\* pitch resolution of any key of the keyboard returns what it returns on the
\* last complete table: it reads the old table whole, never an empty one.
C2_AtomicSwap ==
    InFlight > 0 =>
        \A midiNote \in MapNotes :
            calculatePitchRatio(midiNote, scaleRatios)
                = calculatePitchRatio(midiNote, committed)

\* C3: octave equivalence. With period = length - 1 and period_ratio =
\* ratios[period], the resolution of baseNote + k * period is the resolution of
\* baseNote times period_ratio^k, for every k from -MaxK to MaxK.
C3_OctaveEquivalence ==
    LET period == Len(scaleRatios) - 1
        period_ratio == scaleRatios[period + 1]
    IN \A k \in (-MaxK) .. MaxK :
          resolved.midiNote = baseNote + k * period =>
              resolved.ratio
                  = Mul(calculatePitchRatio(baseNote, scaleRatios), PowV(period_ratio, k))

\* a handler step that calls playNote(i)
PlayNoteStep(i) ==
    \/ \E key \in Keys : KeyNote(key) = i /\ KeyPressed(key)
    \/ \E c \in Clicks : i \in ClickNotes(c[1], c[2]) /\ MousePressed(c[1], c[2])

\* C4: re-trigger law. playNote(i) on an engaged index i makes exactly one stop
\* call and then exactly one play call for i, and leaves i engaged; so no play
\* call for i follows another without a stop between them.
C4_Retrigger ==
    [][\A i \in NoteIds :
          (PlayNoteStep(i) /\ Engaged(isPlaying, i)) =>
              /\ calls' = <<[op |-> "stop", note |-> i], [op |-> "play", note |-> i]>>
              /\ Engaged(isPlaying', i)]_vars

C4_Witness ==
    /\ calls = <<[op |-> "stop", note |-> 60], [op |-> "play", note |-> 60]>>
    /\ Engaged(isPlaying, 60)

\* C5: an index is marked engaged exactly when a voice the engine was told to
\* play for it is still sounding; stopping one engaged index leaves the voice
\* of every other engaged index sounding.
C5_EngagedIffSounding ==
    \A i \in DOMAIN isPlaying :
        isPlaying[i] <=> (\E v \in voices : v.note = i)

\* C6: stopNote is idempotent. keyReleased on an engaged index makes one stop
\* call and leaves it idle, and a second stopNote right after makes no further
\* call and changes nothing; on an index that is idle or was never played,
\* stopNote makes no call and changes neither isPlaying nor the voices.
C6_StopIdempotent ==
    [][\A key \in Keys :
          KeyReleased(key) =>
              LET i == KeyNote(key)
                  after == [isPlaying |-> isPlaying', voices |-> voices', calls |-> calls']
              IN /\ ~Engaged(isPlaying', i)
                 /\ stopNote(after, i) = after
                 /\ IF Engaged(isPlaying, i)
                    THEN calls' = <<[op |-> "stop", note |-> i]>>
                    ELSE calls' = <<>> /\ isPlaying' = isPlaying /\ voices' = voices]_vars

C6_Witness ==
    /\ calls = <<[op |-> "stop", note |-> 60]>>
    /\ 60 \in DOMAIN isPlaying /\ ~isPlaying[60]
    /\ 60 \notin pressedKeys

\* C7: releaseAll. After mouseReleased no index is engaged, and the calls it
\* made are stop calls, exactly one for each index that was engaged.
C7_ReleaseAll ==
    [][MouseReleased =>
          /\ EngagedSet(isPlaying') = {}
          /\ Len(calls') = Cardinality(EngagedSet(isPlaying))
          /\ \A j \in 1..Len(calls') : calls'[j].op = "stop"
          /\ {calls'[j].note : j \in 1..Len(calls')} = EngagedSet(isPlaying)]_vars

C7_Witness ==
    /\ Len(calls) = 2
    /\ \A j \in 1..Len(calls) : calls[j].op = "stop"
    /\ EngagedSet(isPlaying) = {}
    /\ pressedKeys = {}

C9_NoSampleNoSound ==
    ~sampleLoaded =>
        /\ calls = <<>>
        /\ voices = {}
        /\ EngagedSet(isPlaying) = {}

C9_Witness ==
    /\ ~sampleLoaded
    /\ {60, undefined} \subseteq pressedKeys

\* no data line of the text parses
NoDataLineParses(text) ==
    LET lines == FilteredLines(text)
    IN \A i \in 3..Len(lines) : ~parseScalaRatio(lines[i]).ok

\* C10: when the description and the count are valid and no data line parses,
\* reader.onload leaves the default 12-TET table of 13 entries active.
C10_NoValidRatiosGivesDefault ==
    [][\A f \in SclFiles :
          (ReaderOnload(f) /\ ~BuildFails(File(f).text) /\ NoDataLineParses(File(f).text))
              => (scaleRatios' = DefaultScale /\ Len(scaleRatios') = 13)]_vars

\* 10000 * 2^(c / 1200) to the nearest integer, for c = 0, 100, ..., 1100
Pow2Cents10000 ==
    <<10000, 10595, 11225, 11892, 12599, 13348, 14142, 14983, 15874, 16818,
      17818, 18877>>

\* a < b for finite a and b whose cents are multiples of 100 (every value the
\* files of the model give): exact when the cents agree, to 4 decimals otherwise
Less(a, b) ==
    a.n * b.d * Pow2Cents10000[(a.c \div 100) + 1]
        < b.n * a.d * Pow2Cents10000[(b.c \div 100) + 1]

StrictlyIncreasing(ratios) ==
    \A i \in 1..(Len(ratios) - 1) : Less(ratios[i], ratios[i + 1])

\* the tables one file's build gives on an empty array, and the default one
SingleTables ==
    {DefaultScale} \cup {BuildTable(File(f).text, <<>>) : f \in Buildable}

\* the values of the data lines of the text that parse, in the order of the lines
ParsedValues(text) ==
    LET lines == FilteredLines(text)
        data == SubSeq(lines, 3, Len(lines))
        Parses(line) == parseScalaRatio(line).ok
        kept == SelectSeq(data, Parses)
    IN [i \in 1..Len(kept) |-> parseScalaRatio(kept[i]).r]

\* the count the second line of the text declares
DeclaredCount(text) == parseInt(FilteredLines(text)[2]).v

\* reader.onload of f runs and does not return early
BuildStep(f) == ReaderOnload(f) /\ ~BuildFails(File(f).text)

\* C11: every table a successful scale load produces has the entry 1 at index
\* 0, at least 2 entries, only entries above zero, and is strictly increasing.
C11_TableWellFormed ==
    /\ committed[1] = One
    /\ TableInvariant(committed)
    /\ StrictlyIncreasing(committed)

\* C12: a data line that does not parse is skipped and the build goes on: the
\* entries a build pushes are the unison, then the values of the lines that
\* parse in the order of the lines, with nothing after them but the terminal
\* 2; on an array that is empty when the build runs they are the whole table.
C12_SkipUnparsable ==
    [][\A f \in BuildFiles :
          BuildStep(f) =>
              LET first == Len(scaleRatios) + 1
                  parsed == ParsedValues(File(f).text)
                  last == first + Len(parsed)
              IN /\ Len(scaleRatios') \in {last, last + 1}
                 /\ SubSeq(scaleRatios', first, last) = <<One>> \o parsed
                 /\ scaleRatios'[Len(scaleRatios')] = Two
                 /\ scaleRatios = <<>> =>
                       scaleRatios' \in {<<One>> \o parsed, <<One>> \o parsed \o <<Two>>}]_vars

C12_Witness ==
    /\ committed = <<One, PowCents(700), Two>>
    /\ scaleRatios = committed
    /\ InFlight = 0

\* C13: once the callbacks of two overlapping scale loads have both run, the
\* active table is the table built from one of the definitions alone.
C13_WholesaleReplace ==
    InFlight = 0 => committed \in SingleTables

\* C14: a voice that sounds before and after a handler or callback, and whose
\* index that step did not retrigger, keeps its playback rate.
C14_RateKept ==
    [][\A v \in voices : \A w \in voices' :
          (/\ w.h = v.h
           /\ w.note = v.note
           /\ \A j \in 1..Len(calls') :
                 ~(calls'[j].op = "play" /\ calls'[j].note = v.note))
              => w.rate = v.rate]_vars

\* C15: a build pushes at most N entries between the unison and the terminal
\* 2, N being the declared count, whatever number of lines follows the count.
C15_AtMostDeclared ==
    [][\A f \in BuildFiles :
          BuildStep(f) =>
              Len(scaleRatios') - Len(scaleRatios) <= DeclaredCount(File(f).text) + 2]_vars

\* C16: after a successful scale load the last entry is 2, and a 2 is pushed
\* after the retained entries exactly when the last of them is not 2.
C16_TerminalOctave ==
    [][\A f \in BuildFiles :
          BuildStep(f) =>
              LET retained == scaleRatios \o <<One>> \o ParsedValues(File(f).text)
              IN /\ scaleRatios'[Len(scaleRatios')] = Two
                 /\ scaleRatios' = IF retained[Len(retained)] = Two
                                   THEN retained
                                   ELSE Append(retained, Two)]_vars

C16_Witness ==
    /\ committed = <<One, Div(5, 4), Two>>
    /\ scaleRatios = committed
    /\ InFlight = 0

\* C17: the notes pointer presses on the canvas bring lie in the two repeat
\* periods of the drawn keyboard, baseNote to baseNote + 23.
C17_PointerInRange ==
    pressedKeys \subseteq baseNote .. (baseNote + 23)

\* C18: pressing or releasing a key that KEYBOARD_MAP does not hold leaves
\* pressedKeys, isPlaying and the voices as they are and makes no call.
C18_UnmappedKeyIgnored ==
    [][\A key \in Keys :
          (/\ toLowerCase(key) \notin DOMAIN KEYBOARD_MAP
           /\ KeyPressed(key) \/ KeyReleased(key))
              => /\ pressedKeys' = pressedKeys
                 /\ isPlaying' = isPlaying
                 /\ voices' = voices
                 /\ calls' = <<>>]_vars

\* C19: when no index is engaged no voice sounds, the sample handle having
\* been replaced while notes were engaged or not.
C19_NoOrphanVoice ==
    EngagedSet(isPlaying) = {} => voices = {}

====
